---- MODULE Spec2Model ----
(***************************************************************************)
(* Notex retrieval-and-generation core: the chunker and the in-memory      *)
(* chunk collection of app/vector.py, the source and transform handlers of *)
(* app/server.py and the orchestrator of app/agent.py.                     *)
(*                                                                         *)
(* A Python str is a sequence of one-character strings.  Characters of the *)
(* CJK Unified Ideographs range are written by code point ("u4e2d").       *)
(***************************************************************************)
EXTENDS Integers, Sequences, FiniteSets, TLC

\* ------------------------------------------------------------------ bounds
MaxTextLen == 4      \* longest enumerated text handed to the chunker
MaxChunks == 6       \* iterations of the split loop that are followed
MaxDocs == 6         \* most chunks held by the collection
MaxPersisted == 1    \* most source records found in the store at startup
MaxSourceIds == 2    \* most source records ever created
MaxNotes == 1        \* most note records created
MaxPieces == 4       \* most pieces of a generated text handed to the slide parser
MaxClock == 3        \* last reading of the event loop clock that is followed, in ticks

\* ------------------------------------------------------------- characters
WhiteSpace == {" ", "\t", "\n"}

\* the code points of the characters that are written by code point
CodePoint ==
  [ u3042 |-> 12354, u4dff |-> 19967, u4e00 |-> 19968, u4e2d |-> 20013,
    u4e48 |-> 20040, u4e8b |-> 20107, u4ec0 |-> 20160, u4ecb |-> 20171,
    u5173 |-> 20851, u5185 |-> 20869, u53d9 |-> 21465, u5565 |-> 21861,
    u5bb9 |-> 23481, u5e7b |-> 24187, u5f20 |-> 24352, u6587 |-> 25991,
    u6807 |-> 26631, u6863 |-> 26723, u706f |-> 28783, u7247 |-> 29255,
    u76ee |-> 30446, u7b2c |-> 31532, u7ecd |-> 32461, u8bf4 |-> 35828,
    u952e |-> 38190, u9fff |-> 40959, ua000 |-> 40960, uac00 |-> 44032 ]

\* the place of a character in the order of Python's str comparison; every
\* character not written by code point is ASCII and stands below 128
Ord(c) == IF c \in DOMAIN CodePoint THEN CodePoint[c] ELSE 127

\* '\u4e00' <= c <= '\u9fff'
IsCJK(c) == 19968 <= Ord(c) /\ Ord(c) <= 40959

Min(a, b) == IF a < b THEN a ELSE b
Max(a, b) == IF a > b THEN a ELSE b

\* s[i:j] of Python, for any integers i and j
PySlice(s, i, j) ==
  LET n == Len(s)
      lo == IF i < 0 THEN Max(n + i, 0) ELSE Min(i, n)
      hi == IF j < 0 THEN Max(n + j, 0) ELSE Min(j, n)
  IN IF lo >= hi THEN << >> ELSE SubSeq(s, lo + 1, hi)

\* all sequences over S of length at most n
RECURSIVE SeqsUpTo(_, _)
SeqsUpTo(S, n) ==
  IF n = 0 THEN { << >> }
  ELSE LET shorter == SeqsUpTo(S, n - 1)
       IN shorter \cup { Append(s, c) : s \in { t \in shorter : Len(t) = n - 1 }, c \in S }

\* list(text): the characters of the text, one unit each
Runes(t) == [k \in 1..Len(t) |-> << t[k] >>]

\* text.split(): the maximal runs of non-whitespace characters of t[lo..hi]
RECURSIVE SplitRange(_, _, _)
SplitRange(t, lo, hi) ==
  IF lo > hi THEN << >>
  ELSE IF lo = hi THEN (IF t[lo] \in WhiteSpace THEN << >> ELSE << << t[lo] >> >>)
  ELSE LET mid == (lo + hi) \div 2
           L == SplitRange(t, lo, mid)
           R == SplitRange(t, mid + 1, hi)
       IN IF t[mid] \notin WhiteSpace /\ t[mid + 1] \notin WhiteSpace
          THEN SubSeq(L, 1, Len(L) - 1) \o << L[Len(L)] \o R[1] >> \o Tail(R)
          ELSE L \o R

Words(t) == SplitRange(t, 1, Len(t))

\* sep.join(parts)
RECURSIVE Join(_, _)
Join(parts, sep) ==
  IF Len(parts) = 0 THEN << >>
  ELSE IF Len(parts) = 1 THEN parts[1]
  ELSE LET h == Len(parts) \div 2
       IN Join(SubSeq(parts, 1, h), sep) \o sep \o Join(SubSeq(parts, h + 1, Len(parts)), sep)

\* -------------------------------------------------------------- variables
VARIABLES
  config,   \* Config: chunk_size, chunk_overlap as configured
  docs,     \* VectorStore.docs: the chunk collection, in storage order
  pc,       \* position of the handler being followed
  args,     \* arguments of the call being followed
  sp,       \* local variables of _split_text
  ret,      \* value returned by the last completed call
  sources,  \* the source records of the persistence store, in creation order
  notes,    \* the note records of the persistence store
  nextId,   \* the next fresh record id
  xf        \* the transform request in flight: its position and locals

vars == << config, docs, pc, args, sp, ret, sources, notes, nextId, xf >>

\* the state of the service around the collection
serviceVars == << sources, notes, nextId, xf >>

\* ---------------------------------------------------------------- chunker
DefaultChunkSize == 1000
DefaultChunkOverlap == 200

\* a mode test that takes a ratio of exactly 0.3 for CJK as well
IsCJKTextFromThreshold(t) ==
  LET cjk_count == Cardinality({ k \in 1..Len(t) : IsCJK(t[k]) })
  IN Len(t) > 0 /\ 10 * cjk_count >= 3 * Len(t)

\* cjk_ratio > 0.3 with cjk_ratio = cjk_count / len(runes), 0 for the empty text
IsCJKText(t) ==
  LET cjk_count == Cardinality({ k \in 1..Len(t) : IsCJK(t[k]) })
  IN Len(t) > 0 /\ 10 * cjk_count > 3 * Len(t)

\* _split_text up to the first test of its while loop: the coerced sizes, the
\* mode, the units (characters or words) and the separator that re-joins them
SplitEnter(t, cfg) ==
  LET cjk == IsCJKText(t)
  IN [ chunk_size    |-> IF cfg.chunk_size <= 0 THEN DefaultChunkSize ELSE cfg.chunk_size,
       chunk_overlap |-> IF cfg.chunk_overlap < 0 THEN DefaultChunkOverlap ELSE cfg.chunk_overlap,
       cjk     |-> cjk,
       units   |-> IF cjk THEN Runes(t) ELSE Words(t),
       sep     |-> IF cjk THEN << >> ELSE << " " >>,
       i       |-> 0,
       chunks  |-> << >>,
       windows |-> << >>,
       done    |-> FALSE ]

\* a step that forgets the overlap
StepIgnoresOverlap(s) == s.chunk_size

\* the amount added to i at the end of an iteration
Step(s) == s.chunk_size - s.chunk_overlap

\* a loop body without the break on reaching the end of the units
SplitBodyNoBreak(s) ==
  IF ~(s.i < Len(s.units)) THEN [s EXCEPT !.done = TRUE]
  ELSE LET end == Min(s.i + s.chunk_size, Len(s.units))
           chunk == Join(PySlice(s.units, s.i, end), s.sep)
       IN [s EXCEPT !.chunks = Append(@, chunk),
                    !.windows = Append(@, << s.i, end >>),
                    !.i = @ + Step(s)]

\* a loop body whose window stops one unit short of the end of the units
SplitBodyShortEnd(s) ==
  IF ~(s.i < Len(s.units)) THEN [s EXCEPT !.done = TRUE]
  ELSE LET end == Min(s.i + s.chunk_size, Len(s.units) - 1)
           chunk == Join(PySlice(s.units, s.i, Max(end, 0)), s.sep)
           t == [s EXCEPT !.chunks = Append(@, chunk),
                          !.windows = Append(@, << s.i, end >>)]
       IN IF end >= Len(s.units) - 1 THEN [t EXCEPT !.done = TRUE]
          ELSE [t EXCEPT !.i = @ + Step(s)]

\* one test of the while condition and, when it holds, one run of the loop body
SplitBody(s) ==
  IF ~(s.i < Len(s.units)) THEN [s EXCEPT !.done = TRUE]
  ELSE LET end == Min(s.i + s.chunk_size, Len(s.units))
           chunk == Join(PySlice(s.units, s.i, end), s.sep)
           t == [s EXCEPT !.chunks = Append(@, chunk),
                          !.windows = Append(@, << s.i, end >>)]
       IN IF end >= Len(s.units) THEN [t EXCEPT !.done = TRUE]
          ELSE [t EXCEPT !.i = @ + Step(s)]

\* the loop run to its end, or abandoned after fuel iterations
RECURSIVE SplitLoop(_, _)
SplitLoop(s, fuel) ==
  IF s.done \/ fuel = 0 THEN s ELSE SplitLoop(SplitBody(s), fuel - 1)

Document(chunk, source_name, k) ==
  [ page_content |-> chunk, source |-> source_name, chunk |-> k ]

\* the documents ingest_text appends for the chunks of one source
NewDocs(source_name, chunks) ==
  [ k \in 1..Len(chunks) |-> Document(chunks[k], source_name, k - 1) ]

\* ------------------------------------------- one ingest_text call, stepped
SplitAlphabet == {"a", "b", " ", "u4e2d"}
SplitTexts == SeqsUpTo(SplitAlphabet, MaxTextLen)
SplitSizes == {0, 1, 2, 3}
SplitOverlaps == {-1, 0, 1, 2, 3}

\* scenario A: 2500 one-letter words, chunk_size 1000, overlap 200
ScenarioAWords == 2500
ScenarioAText == [ k \in 1..(2 * ScenarioAWords - 1) |-> IF k % 2 = 1 THEN "a" ELSE " " ]
ScenarioAConfig == [ chunk_size |-> 1000, chunk_overlap |-> 200 ]

\* texts of n characters that start with the k characters of head and go on
\* with one-letter words
MixedText(head, n) ==
  [ i \in 1..n |-> IF i <= Len(head) THEN head[i] ELSE IF i % 2 = 0 THEN "a" ELSE " " ]

\* ten-character texts at 10%, 30% and 40% of ideographs, and texts whose
\* non-ASCII characters stand at the two ends of the tested range
ModeTexts ==
  { MixedText(<< "u4e2d" >>, 10),
    MixedText(<< "u4e2d", "u6587", "u6863" >>, 10),
    MixedText(<< "u4e2d", "u6587", "u6863", "u8bf4" >>, 10),
    MixedText(<< "u4e00", "u9fff", "u4e00", "u9fff" >>, 10),
    MixedText(<< "u4dff", "ua000", "u3042", "uac00" >>, 10) }
ModeConfigs ==
  { [ chunk_size |-> 4, chunk_overlap |-> 1 ], [ chunk_size |-> 3, chunk_overlap |-> 0 ] }

SplitInputs ==
  { << t, [ chunk_size |-> c, chunk_overlap |-> o ] >> :
       t \in SplitTexts, c \in SplitSizes, o \in SplitOverlaps }
  \cup { << ScenarioAText, ScenarioAConfig >> }
  \cup { << t, cfg >> : t \in ModeTexts, cfg \in ModeConfigs }

InitSplit ==
  /\ \E inp \in SplitInputs :
       /\ config = inp[2]
       /\ args = [ source_name |-> "doc", content |-> inp[1] ]
  /\ docs = << >>
  /\ pc = "call"
  /\ sp = [ done |-> FALSE ]
  /\ ret = [ op |-> "none" ]
  /\ sources = << >> /\ notes = << >> /\ nextId = 1 /\ xf = [ pc |-> "idle" ]

\* ingest_text calls _split_text, which runs up to its loop
SplitStart ==
  /\ pc = "call"
  /\ sp' = SplitEnter(args.content, config)
  /\ pc' = "loop"
  /\ UNCHANGED << config, docs, args, ret, serviceVars >>

\* one iteration of the loop of _split_text
SplitIterate ==
  /\ pc = "loop"
  /\ ~sp.done
  /\ Len(sp.chunks) < MaxChunks
  /\ sp' = SplitBody(sp)
  /\ UNCHANGED << config, docs, pc, args, ret, serviceVars >>

\* _split_text returns; ingest_text appends one document per chunk and
\* returns their number
IngestStore ==
  /\ pc = "loop"
  /\ sp.done
  /\ docs' = docs \o NewDocs(args.source_name, sp.chunks)
  /\ ret' = [ op |-> "ingest_text", count |-> Len(sp.chunks) ]
  /\ pc' = "done"
  /\ UNCHANGED << config, args, sp, serviceVars >>

NextSplit == SplitStart \/ SplitIterate \/ IngestStore

SpecSplit == InitSplit /\ [][NextSplit]_vars

\* ----------------------------------------------------------------- ranker
\* str.lower() on the characters the model uses
Lower(c) ==
  IF c = "A" THEN "a"
  ELSE IF c = "B" THEN "b"
  ELSE IF c = "C" THEN "c"
  ELSE IF c = "D" THEN "d"
  ELSE IF c = "E" THEN "e"
  ELSE IF c = "F" THEN "f"
  ELSE IF c = "G" THEN "g"
  ELSE IF c = "H" THEN "h"
  ELSE IF c = "I" THEN "i"
  ELSE IF c = "J" THEN "j"
  ELSE IF c = "K" THEN "k"
  ELSE IF c = "L" THEN "l"
  ELSE IF c = "M" THEN "m"
  ELSE IF c = "N" THEN "n"
  ELSE IF c = "O" THEN "o"
  ELSE IF c = "P" THEN "p"
  ELSE IF c = "Q" THEN "q"
  ELSE IF c = "R" THEN "r"
  ELSE IF c = "S" THEN "s"
  ELSE IF c = "T" THEN "t"
  ELSE IF c = "U" THEN "u"
  ELSE IF c = "V" THEN "v"
  ELSE IF c = "W" THEN "w"
  ELSE IF c = "X" THEN "x"
  ELSE IF c = "Y" THEN "y"
  ELSE IF c = "Z" THEN "z"
  ELSE c
LowerStr(s) == [ k \in 1..Len(s) |-> Lower(s[k]) ]

\* needle in hay, for two strings
Contains(hay, needle) ==
  \E k \in 0..(Len(hay) - Len(needle)) : SubSeq(hay, k + 1, k + Len(needle)) = needle

\* question_keywords
QuestionKeywords ==
  { << "u4ecb", "u7ecd" >>, << "u4ec0", "u4e48" >>, << "u5565" >>,
    << "u5185", "u5bb9" >>, << "u6587", "u6863" >>, << "u8bf4" >> }

\* the default of num_docs
DefaultNumDocs == 5

\* len(query_runes), or 1 for the empty query: the factor that makes every
\* score an integer
ScoreScale(query) == Max(1, Len(query))

\* a score without the 10.0 for the substring
ScoreNoSubstring(page_content, query) ==
  LET content == LowerStr(page_content)
      query_lower == LowerStr(query)
      L == ScoreScale(query)
      match_count == Cardinality({ k \in 1..Len(query_lower) : Contains(content, << query_lower[k] >>) })
      query_words == Words(query_lower)
      word_hits == Cardinality({ k \in 1..Len(query_words) :
                                   Len(query_words[k]) > 2 /\ Contains(content, query_words[k]) })
  IN 5 * match_count
     + 2 * L * word_hits
     + (IF \E kw \in QuestionKeywords : Contains(query_lower, kw) THEN L ELSE 0)

\* the score of one chunk, times ScoreScale(query): 10.0 for the substring,
\* 5.0 * match_count / len(query_runes), 2.0 per query word longer than 2
\* found in the chunk, 1.0 once for a question keyword in the query
Score(page_content, query) ==
  LET content == LowerStr(page_content)
      query_lower == LowerStr(query)
      L == ScoreScale(query)
      match_count == Cardinality({ k \in 1..Len(query_lower) : Contains(content, << query_lower[k] >>) })
      query_words == Words(query_lower)
      word_hits == Cardinality({ k \in 1..Len(query_words) :
                                   Len(query_words[k]) > 2 /\ Contains(content, query_words[k]) })
  IN (IF Contains(content, query_lower) THEN 10 * L ELSE 0)
     + 5 * match_count
     + 2 * L * word_hits
     + (IF \E kw \in QuestionKeywords : Contains(query_lower, kw) THEN L ELSE 0)

\* the score of every chunk of d, by position
Scores(d, query) == [ p \in 1..Len(d) |-> Score(d[p].page_content, query) ]

\* the positions of P ordered by ascending score and reversed, which also
\* reverses the chunks of equal score
SortAscendingReversed(sc, P) ==
  [ r \in 1..Cardinality(P) |->
      CHOOSE p \in P :
        Cardinality({ q \in P : sc[q] > sc[p] \/ (sc[q] = sc[p] /\ q > p) }) = r - 1 ]

\* scored_docs.sort(key=score, reverse=True): the positions of P by
\* descending score, equal scores in their original order
SortByScore(sc, P) ==
  [ r \in 1..Cardinality(P) |->
      CHOOSE p \in P :
        Cardinality({ q \in P : sc[q] > sc[p] \/ (sc[q] = sc[p] /\ q < p) }) = r - 1 ]

\* the only element of a one-element set; it lets a value be computed once
The(S) == CHOOSE x \in S : TRUE

\* a search without the fallback to the first chunks
SearchNoFallback(d, query, num_docs) ==
  LET n == IF num_docs <= 0 THEN DefaultNumDocs ELSE num_docs
  IN IF Len(d) = 0 THEN << >>
     ELSE The({ PySlice(SortByScore(sc, { p \in 1..Len(d) : sc[p] > 0 }), 0, n) :
                  sc \in { Scores(d, query) } })

\* the rest of similarity_search once every chunk has its score: the scored
\* chunks sorted and cut to n, or the first n chunks when none scored
Ranked(sc, n) ==
  LET scored == { p \in DOMAIN sc : sc[p] > 0 }
  IN IF scored = {} THEN PySlice([ p \in DOMAIN sc |-> p ], 0, n)
     ELSE PySlice(SortByScore(sc, scored), 0, n)

\* similarity_search: the positions in d of the documents returned, in order
similarity_search(d, query, num_docs) ==
  LET n == IF num_docs <= 0 THEN DefaultNumDocs ELSE num_docs
  IN IF Len(d) = 0 THEN << >>
     ELSE The({ Ranked(sc, n) : sc \in { Scores(d, query) } })

\* a delete that empties the collection
DeleteDocsClears(d, source_name) == << >>

\* delete: the documents whose source is not source_name, in order
DeleteDocs(d, source_name) == SelectSeq(d, LAMBDA doc : doc.source # source_name)

\* ingest_text: the split run to its end, the documents appended and the count
ingest_text(d, source_name, content) ==
  LET s == SplitLoop(SplitEnter(content, config), MaxChunks + 1)
  IN [ returns |-> s.done,
       docs    |-> d \o NewDocs(source_name, s.chunks),
       count   |-> Len(s.chunks) ]

\* ------------------------------------------------- the collection, by call
SourceNames == {"n1", "n2"}

SampleTexts ==
  { << "A", " ", "a", " ", "u5565" >>,
    << "a", "A", "a", " ", " ", "b" >>,
    << "u5565", "a", "u5565", "a" >> }

SampleQueries ==
  { << >>, << "a" >>, << "A" >>, << "b" >>, << "c" >>, << "u5565" >>,
    << "a", "a", "a" >>, << "a", "u5565" >>, << "a", " ", "c" >> }

SampleLimits == {0, 1, 2}

SampleConfigs ==
  { [ chunk_size |-> 1, chunk_overlap |-> 0 ],
    [ chunk_size |-> 2, chunk_overlap |-> 1 ],
    [ chunk_size |-> 1, chunk_overlap |-> 1 ] }

NoCall == [ op |-> "none" ]
NoArgs == [ source_name |-> "", content |-> << >> ]
NoSplit == [ done |-> FALSE ]
NoTransform == [ pc |-> "idle" ]

\* an empty store and no request in flight
NoService == sources = << >> /\ notes = << >> /\ nextId = 1 /\ xf = NoTransform

Init ==
  /\ config \in SampleConfigs
  /\ docs = << >>
  /\ pc = "idle"
  /\ args = NoArgs
  /\ sp = NoSplit
  /\ ret = NoCall
  /\ NoService

\* a call of ingest_text; a split that never ends leaves the call, and the
\* event loop it blocks, stuck
IngestText(source_name, content) ==
  LET r == ingest_text(docs, source_name, content)
  IN /\ pc = "idle"
     /\ IF r.returns
        THEN /\ Len(r.docs) <= MaxDocs
             /\ docs' = r.docs
             /\ ret' = [ op |-> "ingest_text", source_name |-> source_name,
                         count |-> r.count ]
             /\ pc' = pc
        ELSE /\ pc' = "stuck"
             /\ UNCHANGED << docs, ret >>
     /\ UNCHANGED << config, args, sp, serviceVars >>

\* a call of similarity_search
SimilaritySearch(query, num_docs) ==
  /\ pc = "idle"
  /\ ret' = [ op |-> "similarity_search", query |-> query, num_docs |-> num_docs,
              hits |-> similarity_search(docs, query, num_docs) ]
  /\ UNCHANGED << config, docs, pc, args, sp, serviceVars >>

\* a call of delete
Delete(source_name) ==
  /\ pc = "idle"
  /\ docs' = DeleteDocs(docs, source_name)
  /\ ret' = [ op |-> "delete", source_name |-> source_name ]
  /\ UNCHANGED << config, pc, args, sp, serviceVars >>

Next ==
  \/ \E n \in SourceNames, t \in SampleTexts : IngestText(n, t)
  \/ \E q \in SampleQueries, k \in SampleLimits : SimilaritySearch(q, k)
  \/ \E n \in SourceNames : Delete(n)

Spec == Init /\ [][Next]_vars

\* ---------------------------------------------------------------- service
\* the name of every insight source (server.py writes it in Chinese)
InsightName == "insight_report"

\* the transformation types with a title in _get_title_for_type
KnownTypes ==
  { "summary", "faq", "study_guide", "outline", "podcast", "timeline",
    "glossary", "quiz", "infograph", "ppt", "mindmap", "insight" }

\* get_transformation_prompt of app/prompt.py: the template of a known type;
\* an unknown type fails
get_transformation_prompt(type) == [ raised |-> type \notin KnownTypes ]

\* the strategy dispatch of generate_transformation: the first call it awaits
Dispatch(type) ==
  IF type = "ppt" THEN (IF config.gemini THEN "gemini_text" ELSE "llm")
  ELSE IF type = "insight" THEN "summary"
  ELSE "llm"

\* an entry that does not look the template up before dispatching
GenerateEntryNoLookup(type) == Dispatch(type)

\* generate_transformation up to its first await: the template lookup, whose
\* failure leaves the function, then the dispatch
GenerateEntry(type) ==
  IF get_transformation_prompt(type).raised THEN "raise" ELSE Dispatch(type)

\* the provider or tool behind a position of the request
CallOf(p) ==
  IF p \in {"llm", "summary", "fallback_missing", "fallback_generic"} THEN "llm"
  ELSE IF p = "gemini_text" THEN "gemini_text"
  ELSE IF p = "tool" THEN "tool"
  ELSE "gemini_image"

\* the exception class _call_deepinsight raises for an outcome of the tool
ToolOutcomes ==
  { "no_executable", "nonzero_exit", "timeout", "no_output_file", "unreadable_output" }

ToolException(outcome) ==
  IF outcome \in {"no_executable", "no_output_file"} THEN "FileNotFoundError"
  ELSE IF outcome \in {"nonzero_exit", "timeout"} THEN "RuntimeError"
  ELSE "UnicodeDecodeError"

\* the largest number of slides whose images are generated
MaxSlideImages == 10

\* the maximum named by the log line and the image_error of the handler
StatedMaxSlides == 20

\* the handler after generate_transformation has returned: the first image
\* call, or the saving of the note
AfterGenerate(x, nslides) ==
  IF x.type = "infograph" /\ config.gemini
  THEN [x EXCEPT !.pc = "image", !.calls = Append(@, "gemini_image")]
  ELSE IF x.type = "ppt" /\ config.gemini
  THEN IF nslides > MaxSlideImages
       THEN [x EXCEPT !.pc = "save", !.nslides = nslides, !.image = "error"]
       ELSE [x EXCEPT !.pc = "slide_image", !.nslides = nslides, !.k = 1,
                      !.calls = Append(@, "gemini_image")]
  ELSE [x EXCEPT !.pc = "save"]

\* the selected sources of a request: the listed ids that exist, or all
SelectSources(ids) ==
  IF ids # << >>
  THEN SelectSeq(ids, LAMBDA sid : \E k \in 1..Len(sources) : sources[k].id = sid)
  ELSE [ k \in 1..Len(sources) |-> sources[k].id ]

\* no call of _call_deepinsight yet
NoRun == [ pc |-> "none" ]

\* a request record at the start of the transform handler
NewTransform(type, ids) ==
  [ pc |-> "start", type |-> type, source_ids |-> ids, calls |-> << >>,
    summary |-> << >>, content |-> << >>, status |-> 0, note |-> FALSE,
    image |-> "none", nslides |-> 0, k |-> 0, slide_urls |-> << >>,
    fallback |-> "none", run |-> NoRun, failed |-> "none", replies |-> << >>,
    slide_failures |-> {} ]

\* the startup restore of create_server: every stored source with content
\* ingested in order
RECURSIVE Restore(_, _, _)
Restore(srcs, k, d) ==
  IF k > Len(srcs) THEN [ returns |-> TRUE, docs |-> d ]
  ELSE IF srcs[k].content = << >> THEN Restore(srcs, k + 1, d)
  ELSE LET r == ingest_text(d, srcs[k].name, srcs[k].content)
       IN IF r.returns THEN Restore(srcs, k + 1, r.docs)
          ELSE [ returns |-> FALSE, docs |-> d ]

ServiceTexts == { << >>, << "a", " ", "b", " ", "a" >> }

ServiceConfigs ==
  { [ chunk_size |-> 2, chunk_overlap |-> 1, max_sources |-> 5, gemini |-> TRUE ],
    [ chunk_size |-> 2, chunk_overlap |-> 1, max_sources |-> 5, gemini |-> FALSE ],
    [ chunk_size |-> 1, chunk_overlap |-> 1, max_sources |-> 5, gemini |-> FALSE ] }

RequestTypes == { "summary", "infograph", "ppt", "insight", "poem" }
Replies == { << >>, << "b", " ", "a" >> }
ChatMessages == { << "a" >>, << "c" >> }

\* what a generation may end in: a failure, or a text
Generations ==
  { [ ok |-> FALSE, text |-> << >> ] } \cup { [ ok |-> TRUE, text |-> t ] : t \in Replies }
SlideCounts == { 1, 2, 11, 21 }

NoteRecord(type, content, source_ids, image, slides) ==
  [ type |-> type, content |-> content, source_ids |-> source_ids,
    image |-> image, slides |-> slides ]

SourceRecord(id, name, type, content, chunk_count) ==
  [ id |-> id, name |-> name, type |-> type, content |-> content,
    chunk_count |-> chunk_count ]

\* the store contents a server may start with
PersistedSources ==
  UNION { [ 1..n -> { SourceRecord(0, nm, "text", t, 0) : nm \in SourceNames, t \in ServiceTexts } ] :
            n \in 0..MaxPersisted }

InitService ==
  /\ config \in { c \in ServiceConfigs : ~c.gemini }
  /\ \E stored \in PersistedSources :
       LET r == Restore(stored, 1, << >>)
       IN /\ r.returns
          /\ docs = r.docs
          /\ sources = [ k \in 1..Len(stored) |-> [ stored[k] EXCEPT !.id = k ] ]
          /\ nextId = Len(stored) + 1
  /\ notes = << >>
  /\ xf = NoTransform
  /\ pc = "idle"
  /\ args = NoArgs
  /\ sp = NoSplit
  /\ ret = NoCall

\* store.create_source, the ingestion of its content and
\* store.update_source_chunk_count, as add_source, upload_file and transform
\* run them
CreateAndIngest(name, type, content) ==
  LET r == ingest_text(docs, name, content)
  IN IF content = << >>
     THEN /\ sources' = Append(sources, SourceRecord(nextId, name, type, content, 0))
          /\ UNCHANGED << docs, pc >>
     ELSE IF r.returns
     THEN /\ sources' = Append(sources, SourceRecord(nextId, name, type, content, r.count))
          /\ docs' = r.docs
          /\ pc' = pc
     ELSE /\ sources' = Append(sources, SourceRecord(nextId, name, type, content, 0))
          /\ pc' = "stuck"
          /\ docs' = docs

\* POST sources: add_source with the content in the request or fetched
AddSource(name, content) ==
  /\ pc = "idle"
  /\ nextId <= MaxSourceIds
  /\ CreateAndIngest(name, "text", content)
  /\ nextId' = nextId + 1
  /\ ret' = [ op |-> "add_source", status |-> 200 ]
  /\ UNCHANGED << config, args, sp, notes, xf >>

\* POST sources with a url whose content cannot be fetched
AddSourceFetchFails ==
  /\ pc = "idle"
  /\ ret' = [ op |-> "add_source", status |-> 500 ]
  /\ UNCHANGED << config, docs, pc, args, sp, sources, notes, nextId, xf >>

\* POST upload: upload_file, the extracted text of the file as content, or a
\* failed extraction
UploadFile(filename, text_content) ==
  /\ pc = "idle"
  /\ nextId <= MaxSourceIds
  /\ CreateAndIngest(filename, "file", text_content)
  /\ nextId' = nextId + 1
  /\ ret' = [ op |-> "upload_file", status |-> 200 ]
  /\ UNCHANGED << config, args, sp, notes, xf >>

UploadFileExtractFails ==
  /\ pc = "idle"
  /\ ret' = [ op |-> "upload_file", status |-> 500 ]
  /\ UNCHANGED << config, docs, pc, args, sp, sources, notes, nextId, xf >>

\* DELETE source: delete_source removes the record from the store
DeleteSource(k) ==
  /\ pc = "idle"
  /\ k \in 1..Len(sources)
  /\ sources' = [ j \in 1..(Len(sources) - 1) |-> IF j < k THEN sources[j] ELSE sources[j + 1] ]
  /\ ret' = [ op |-> "delete_source", status |-> 204, name |-> sources[k].name ]
  /\ UNCHANGED << config, docs, pc, args, sp, notes, nextId, xf >>

\* POST chat: the search of Agent.chat with max_sources as limit
Chat(message) ==
  /\ pc = "idle"
  /\ ret' = [ op |-> "chat", query |-> message, num_docs |-> config.max_sources,
              hits |-> similarity_search(docs, message, config.max_sources) ]
  /\ UNCHANGED << config, docs, pc, args, sp, sources, notes, nextId, xf >>

\* POST transform up to the first await of generate_transformation
TransformStart(type, ids) ==
  /\ pc = "idle"
  /\ xf.pc \in { "idle", "done" }
  /\ Len(notes) < MaxNotes
  /\ LET x == NewTransform(type, SelectSources(ids))
         e == GenerateEntry(type)
     IN IF x.source_ids = << >>
        THEN /\ xf' = [x EXCEPT !.pc = "done", !.status = 400]
             /\ ret' = [ op |-> "transform", status |-> 400 ]
        ELSE IF e = "raise"
        THEN /\ xf' = [x EXCEPT !.pc = "done", !.status = 500]
             /\ ret' = [ op |-> "transform", status |-> 500 ]
        ELSE /\ xf' = [x EXCEPT !.pc = e, !.calls = << CallOf(e) >>]
             /\ ret' = ret
  /\ UNCHANGED << config, docs, pc, args, sp, sources, notes, nextId >>

\* a text provider answers the call in flight
ProviderReturns(text, nslides) ==
  /\ pc = "idle"
  /\ xf.pc \in { "llm", "gemini_text", "summary", "fallback_missing", "fallback_generic" }
  /\ xf' = IF xf.pc = "summary"
           THEN [xf EXCEPT !.summary = text, !.pc = "tool", !.calls = Append(@, "tool"),
                           !.replies = Append(@, text)]
           ELSE AfterGenerate([xf EXCEPT !.content = text, !.replies = Append(@, text)],
                              nslides)
  /\ UNCHANGED << config, docs, pc, args, sp, ret, sources, notes, nextId >>

\* a handler that takes a failed provider call for an empty answer
ProviderFailsSwallowed ==
  /\ pc = "idle"
  /\ xf.pc \in { "llm", "gemini_text", "summary", "fallback_missing", "fallback_generic" }
  /\ xf' = IF xf.pc = "summary"
           THEN [xf EXCEPT !.pc = "tool", !.calls = Append(@, "tool"),
                           !.failed = CallOf(xf.pc)]
           ELSE AfterGenerate([xf EXCEPT !.failed = CallOf(xf.pc)], 0)
  /\ UNCHANGED << config, docs, pc, args, sp, ret, sources, notes, nextId >>

\* a text provider fails: generate_transformation raises and the handler
\* answers 500
ProviderFails ==
  /\ pc = "idle"
  /\ xf.pc \in { "llm", "gemini_text", "summary", "fallback_missing", "fallback_generic" }
  /\ xf' = [xf EXCEPT !.pc = "done", !.status = 500, !.failed = CallOf(xf.pc)]
  /\ ret' = [ op |-> "transform", status |-> 500 ]
  /\ UNCHANGED << config, docs, pc, args, sp, sources, notes, nextId >>

\* the external tool writes its report
ToolReturns(report) ==
  /\ pc = "idle"
  /\ xf.pc = "tool"
  /\ xf' = AfterGenerate([xf EXCEPT !.content = report, !.fallback = "tool"], 0)
  /\ UNCHANGED << config, docs, pc, args, sp, ret, sources, notes, nextId >>

\* the external tool fails: FileNotFoundError takes the five-section prompt,
\* any other exception the simple one
ToolFails(outcome) ==
  /\ pc = "idle"
  /\ xf.pc = "tool"
  /\ xf' = IF ToolException(outcome) = "FileNotFoundError"
           THEN [xf EXCEPT !.pc = "fallback_missing", !.fallback = "missing",
                           !.calls = Append(@, "llm")]
           ELSE [xf EXCEPT !.pc = "fallback_generic", !.fallback = "generic",
                           !.calls = Append(@, "llm")]
  /\ UNCHANGED << config, docs, pc, args, sp, ret, sources, notes, nextId >>

\* the image of an infograph is generated, or its generation fails
ImageDone(ok) ==
  /\ pc = "idle"
  /\ xf.pc = "image"
  /\ xf' = [xf EXCEPT !.pc = "save", !.image = IF ok THEN "url" ELSE "error"]
  /\ UNCHANGED << config, docs, pc, args, sp, ret, sources, notes, nextId >>

\* the image of slide k is generated and its URL appended, or its generation
\* fails and the failure of slide k is logged; the next slide follows
SlideImageDone(ok) ==
  /\ pc = "idle"
  /\ xf.pc = "slide_image"
  /\ LET x == IF ok THEN [xf EXCEPT !.slide_urls = Append(@, "url")]
              ELSE [xf EXCEPT !.slide_failures = @ \cup { xf.k }]
     IN xf' = IF xf.k >= xf.nslides
              THEN [x EXCEPT !.pc = "save"]
              ELSE [x EXCEPT !.k = @ + 1, !.calls = Append(@, "gemini_image")]
  /\ UNCHANGED << config, docs, pc, args, sp, ret, sources, notes, nextId >>

\* store.create_note with the result
SaveNote ==
  /\ pc = "idle"
  /\ xf.pc = "save"
  /\ notes' = Append(notes, NoteRecord(xf.type,
                                       IF xf.type = "infograph" THEN << >> ELSE xf.content,
                                       xf.source_ids, xf.image, xf.slide_urls))
  /\ IF xf.type = "insight"
     THEN /\ xf' = [xf EXCEPT !.pc = "insight_source", !.note = TRUE]
          /\ ret' = ret
     ELSE /\ xf' = [xf EXCEPT !.pc = "done", !.note = TRUE, !.status = 200]
          /\ ret' = [ op |-> "transform", status |-> 200 ]
  /\ UNCHANGED << config, docs, pc, args, sp, sources, nextId >>

\* the insight report stored as a new source and ingested
InsightSource ==
  /\ pc = "idle"
  /\ xf.pc = "insight_source"
  /\ nextId <= MaxSourceIds
  /\ CreateAndIngest(InsightName, "insight", xf.content)
  /\ nextId' = nextId + 1
  /\ xf' = [xf EXCEPT !.pc = "done", !.status = 200]
  /\ ret' = [ op |-> "transform", status |-> 200 ]
  /\ UNCHANGED << config, args, sp, notes >>

\* POST transform for a type without image steps, from request to response:
\* the generation either fails or gives a text; the note is saved and an
\* insight report is stored as a source and ingested
Transform(type, ids, outcome) ==
  /\ pc = "idle"
  /\ xf.pc = "idle"
  /\ type \notin { "ppt", "infograph" }
  /\ IF SelectSources(ids) = << >>
     THEN /\ ret' = [ op |-> "transform", status |-> 400 ]
          /\ UNCHANGED << docs, pc, sources, notes, nextId >>
     ELSE IF GenerateEntry(type) = "raise" \/ ~outcome.ok
     THEN /\ ret' = [ op |-> "transform", status |-> 500 ]
          /\ UNCHANGED << docs, pc, sources, notes, nextId >>
     ELSE /\ Len(notes) < MaxNotes
          /\ notes' = Append(notes, NoteRecord(type, outcome.text, SelectSources(ids), "none", << >>))
          /\ ret' = [ op |-> "transform", status |-> 200 ]
          /\ IF type = "insight"
             THEN /\ nextId <= MaxSourceIds
                  /\ CreateAndIngest(InsightName, "insight", outcome.text)
                  /\ nextId' = nextId + 1
             ELSE UNCHANGED << docs, pc, sources, nextId >>
  /\ UNCHANGED << config, args, sp, xf >>

NextService ==
  \/ \E n \in SourceNames, t \in ServiceTexts : AddSource(n, t)
  \/ AddSourceFetchFails
  \/ \E n \in SourceNames, t \in ServiceTexts : UploadFile(n, t)
  \/ UploadFileExtractFails
  \/ \E k \in 1..MaxSourceIds : DeleteSource(k)
  \/ \E m \in ChatMessages : Chat(m)
  \/ \E ty \in { "summary", "insight", "poem" }, ids \in { << >>, << 1 >> },
        o \in Generations : Transform(ty, ids, o)

\* the transform handler alone, step by step
InitTransform ==
  /\ config \in { c \in ServiceConfigs : c.chunk_size > c.chunk_overlap }
  /\ \E stored \in { s \in PersistedSources : Len(s) <= 1 } :
       LET r == Restore(stored, 1, << >>)
       IN /\ r.returns
          /\ docs = r.docs
          /\ sources = [ k \in 1..Len(stored) |-> [ stored[k] EXCEPT !.id = k ] ]
          /\ nextId = Len(stored) + 1
  /\ notes = << >>
  /\ xf = NoTransform
  /\ pc = "idle"
  /\ args = NoArgs
  /\ sp = NoSplit
  /\ ret = NoCall

NextTransform ==
  \/ \E ty \in RequestTypes, ids \in { << >>, << 1 >>, << 2 >> } : TransformStart(ty, ids)
  \/ \E t \in Replies, n \in SlideCounts : ProviderReturns(t, n)
  \/ ProviderFails
  \/ \E t \in Replies : ToolReturns(t)
  \/ \E o \in ToolOutcomes : ToolFails(o)
  \/ \E ok \in BOOLEAN : ImageDone(ok)
  \/ \E ok \in BOOLEAN : SlideImageDone(ok)
  \/ SaveNote
  \/ InsightSource

SpecTransform == InitTransform /\ [][NextTransform]_vars

SpecService == InitService /\ [][NextService]_vars

\* ------------------------------------------------- the external tool run
\* an exception in flight: its class and the parts of its message
NoException == [ class |-> "none", msg |-> << >> ]

\* raise RuntimeError(f"DeepInsight command failed: {error_msg}")
ExecutionFailure(stderr) ==
  [ class |-> "RuntimeError", msg |-> << "DeepInsight command failed: ", stderr >> ]

\* raise RuntimeError("DeepInsight command timeout after 10 minutes")
ExecutionTimeout ==
  [ class |-> "RuntimeError", msg |-> << "DeepInsight command timeout after 10 minutes" >> ]

\* what create_subprocess_exec raises when ./DeepInsight does not exist
ExecutableNotFound ==
  [ class |-> "FileNotFoundError", msg |-> << "No such file or directory: ", "./DeepInsight" >> ]

\* what the temporary output file may hold, and its text when it can be read
FileStates == { "absent", "empty", "text", "undecodable" }
ReportOf(f) == IF f = "text" THEN << "b", " ", "a" >> ELSE << >>

\* tmp_file.read_text(encoding="utf-8") after an exit with code 0
ReadText(f) ==
  IF f = "absent"
  THEN [ exc |-> [ class |-> "FileNotFoundError",
                   msg |-> << "No such file or directory: ", "tmp_file" >> ],
         text |-> << >> ]
  ELSE IF f = "undecodable"
  THEN [ exc |-> [ class |-> "UnicodeDecodeError", msg |-> << "invalid start byte" >> ],
         text |-> << >> ]
  ELSE [ exc |-> NoException, text |-> ReportOf(f) ]

StderrTexts == { "", "boom" }

\* a handler that lets every failure of the tool leave generate_transformation
ToolFallbackRaises(exc) ==
  IF exc.class = "none" THEN "return" ELSE "raise"

\* the try statement around _call_deepinsight in generate_transformation:
\* the report is the response, FileNotFoundError takes the five-section
\* prompt and any other exception the simple one
ToolFallback(exc) ==
  IF exc.class = "none" THEN "return"
  ELSE IF exc.class = "FileNotFoundError" THEN "fallback_missing"
  ELSE "fallback_generic"

\* _call_deepinsight up to its first await: the name of the temporary file is
\* chosen and the process is created, or ./DeepInsight does not exist
CreateSubprocess(found) ==
  /\ pc = "idle"
  /\ xf.pc = "tool"
  /\ xf' = [xf EXCEPT !.pc = "run",
                      !.run = [ pc |-> IF found THEN "communicate" ELSE "finally",
                                found |-> found,
                                proc |-> IF found THEN "running" ELSE "none",
                                returncode |-> 0, stderr |-> "",
                                tmp_file |-> "absent", timed_out |-> FALSE,
                                exc |-> IF found THEN NoException ELSE ExecutableNotFound,
                                result |-> << >> ]]
  /\ UNCHANGED << config, docs, pc, args, sp, ret, sources, notes, nextId >>

\* the tool process creates or rewrites the output file named on its command
\* line, whatever the request that started it is doing
ProcWrites(f) ==
  /\ pc = "idle"
  /\ xf.pc # "idle"
  /\ xf.run.pc # "none"
  /\ xf.run.proc = "running"
  /\ f # "absent"
  /\ xf.run.tmp_file # f
  /\ xf' = [xf EXCEPT !.run.tmp_file = f]
  /\ UNCHANGED << config, docs, pc, args, sp, ret, sources, notes, nextId >>

\* the tool process ends with an exit code and its standard-error text
ProcExits(code, err) ==
  /\ pc = "idle"
  /\ xf.pc # "idle"
  /\ xf.run.pc # "none"
  /\ xf.run.proc = "running"
  /\ xf' = [xf EXCEPT !.run.proc = "exited", !.run.returncode = code, !.run.stderr = err]
  /\ UNCHANGED << config, docs, pc, args, sp, ret, sources, notes, nextId >>

\* proc.communicate() returns within the ceiling: a non-zero code raises the
\* execution failure with the standard-error text, code 0 reads the report
CommunicateReturns ==
  /\ pc = "idle"
  /\ xf.pc = "run"
  /\ xf.run.pc = "communicate"
  /\ xf.run.proc = "exited"
  /\ xf' = IF xf.run.returncode # 0
           THEN [xf EXCEPT !.run.pc = "finally",
                           !.run.exc = ExecutionFailure(xf.run.stderr)]
           ELSE [xf EXCEPT !.run.pc = "finally",
                           !.run.exc = ReadText(xf.run.tmp_file).exc,
                           !.run.result = ReadText(xf.run.tmp_file).text]
  /\ UNCHANGED << config, docs, pc, args, sp, ret, sources, notes, nextId >>

\* the ceiling of wait_for expires while the process runs: the wait is
\* cancelled and the timeout error raised; the process is left running
WaitTimeout ==
  /\ pc = "idle"
  /\ xf.pc = "run"
  /\ xf.run.pc = "communicate"
  /\ xf.run.proc = "running"
  /\ xf' = [xf EXCEPT !.run.pc = "finally", !.run.timed_out = TRUE,
                      !.run.exc = ExecutionTimeout]
  /\ UNCHANGED << config, docs, pc, args, sp, ret, sources, notes, nextId >>

\* finally: tmp_file.exists()
FinallyExists ==
  /\ pc = "idle"
  /\ xf.pc = "run"
  /\ xf.run.pc = "finally"
  /\ xf' = [xf EXCEPT !.run.pc = IF xf.run.tmp_file # "absent" THEN "unlink" ELSE "exit"]
  /\ UNCHANGED << config, docs, pc, args, sp, ret, sources, notes, nextId >>

\* finally: tmp_file.unlink()
Unlink ==
  /\ pc = "idle"
  /\ xf.pc = "run"
  /\ xf.run.pc = "unlink"
  /\ xf' = [xf EXCEPT !.run.pc = "exit", !.run.tmp_file = "absent"]
  /\ UNCHANGED << config, docs, pc, args, sp, ret, sources, notes, nextId >>

\* _call_deepinsight returns its report or raises its exception, and
\* generate_transformation goes on with the report or with a fallback call
RunExit ==
  /\ pc = "idle"
  /\ xf.pc = "run"
  /\ xf.run.pc = "exit"
  /\ LET f == ToolFallback(xf.run.exc)
     IN IF f = "return"
        THEN /\ xf' = AfterGenerate([xf EXCEPT !.run.pc = "returned",
                                               !.content = xf.run.result,
                                               !.fallback = "tool"], 0)
             /\ ret' = ret
        ELSE IF f = "raise"
        THEN /\ xf' = [xf EXCEPT !.run.pc = "raised", !.pc = "done", !.status = 500]
             /\ ret' = [ op |-> "transform", status |-> 500 ]
        ELSE /\ xf' = [xf EXCEPT !.run.pc = "raised", !.pc = f,
                                 !.fallback = IF f = "fallback_missing" THEN "missing"
                                              ELSE "generic",
                                 !.calls = Append(@, "llm")]
             /\ ret' = ret
  /\ UNCHANGED << config, docs, pc, args, sp, sources, notes, nextId >>

\* an insight transform with the run of the external tool step by step
NextTool ==
  \/ \E ids \in { << >>, << 1 >> } : TransformStart("insight", ids)
  \/ \E t \in Replies : ProviderReturns(t, 0)
  \/ ProviderFails
  \/ \E found \in BOOLEAN : CreateSubprocess(found)
  \/ \E f \in FileStates : ProcWrites(f)
  \/ \E code \in { 0, 1 }, err \in StderrTexts : ProcExits(code, err)
  \/ CommunicateReturns
  \/ WaitTimeout
  \/ FinallyExists
  \/ Unlink
  \/ RunExit
  \/ SaveNote
  \/ InsightSource

SpecTool == InitTransform /\ [][NextTool]_vars

\* ------------------------------------------ two tool runs at the same time
\* two insight transforms of one event loop are both inside _call_deepinsight;
\* xf holds the loop clock, the files of ./data/tmp and the two calls

\* loop.time() is a float of seconds: the clock is read in ticks of half a
\* millisecond
TicksPerMs == 2

\* int(asyncio.get_event_loop().time() * 1000), the number in the file name
TmpFileName(time) == time \div TicksPerMs

\* the summaries the two calls were given
PairSummaries == << "A", "B" >>

\* the files ./data/tmp may hold: none, or one report per name
PairPaths == 0..(MaxClock \div TicksPerMs)

\* a call of _call_deepinsight before its first line
NewCall(summary) ==
  [ pc |-> "enter", summary |-> summary, tmp_file |-> -1, proc |-> "none",
    wrote |-> FALSE, returncode |-> 0, exc |-> NoException, result |-> "none" ]

InitPair ==
  /\ xf = [ pc |-> "pair", time |-> 0,
            files |-> [ f \in PairPaths |-> "absent" ],
            runs |-> [ r \in 1..2 |-> NewCall(PairSummaries[r]) ] ]
  /\ config \in { c \in ServiceConfigs : c.chunk_size > c.chunk_overlap }
  /\ docs = << >> /\ sources = << >> /\ notes = << >> /\ nextId = 1
  /\ pc = "idle" /\ args = NoArgs /\ sp = NoSplit /\ ret = NoCall

\* the clock of the event loop advances
LoopTimePasses ==
  /\ xf.pc = "pair"
  /\ xf.time < MaxClock
  /\ xf' = [xf EXCEPT !.time = @ + 1]
  /\ UNCHANGED << config, docs, pc, args, sp, ret, sources, notes, nextId >>

\* the finally clause: the file of the call is removed when it exists
Cleanup(files, f) == [files EXCEPT ![f] = "absent"]

\* call r up to its first await: the name of the temporary file is taken from
\* the clock and the process is created; a missing executable raises at once
\* and the finally clause runs
PairEnters(r, found) ==
  /\ xf.pc = "pair"
  /\ xf.runs[r].pc = "enter"
  /\ LET f == TmpFileName(xf.time)
     IN xf' = IF found
              THEN [xf EXCEPT !.runs[r].pc = "communicate", !.runs[r].tmp_file = f,
                              !.runs[r].proc = "running"]
              ELSE [xf EXCEPT !.runs[r].pc = "exit", !.runs[r].tmp_file = f,
                              !.runs[r].exc = ExecutableNotFound,
                              !.files = Cleanup(@, f)]
  /\ UNCHANGED << config, docs, pc, args, sp, ret, sources, notes, nextId >>

\* the process of call r writes the report on its summary to the file named
\* on its command line
PairProcWrites(r) ==
  /\ xf.pc = "pair"
  /\ xf.runs[r].proc = "running"
  /\ ~xf.runs[r].wrote
  /\ xf' = [xf EXCEPT !.files[xf.runs[r].tmp_file] = xf.runs[r].summary,
                      !.runs[r].wrote = TRUE]
  /\ UNCHANGED << config, docs, pc, args, sp, ret, sources, notes, nextId >>

\* the process of call r ends
PairProcExits(r, code) ==
  /\ xf.pc = "pair"
  /\ xf.runs[r].proc = "running"
  /\ xf' = [xf EXCEPT !.runs[r].proc = "exited", !.runs[r].returncode = code]
  /\ UNCHANGED << config, docs, pc, args, sp, ret, sources, notes, nextId >>

\* communicate returns to call r, which runs to its end without another
\* await: the exit code is tested, the file is read, the finally clause runs
PairReturns(r) ==
  /\ xf.pc = "pair"
  /\ xf.runs[r].pc = "communicate"
  /\ xf.runs[r].proc = "exited"
  /\ LET f == xf.runs[r].tmp_file
         x == IF xf.runs[r].returncode # 0
              THEN [xf EXCEPT !.runs[r].exc = ExecutionFailure("")]
              ELSE IF xf.files[f] = "absent"
              THEN [xf EXCEPT !.runs[r].exc = ReadText("absent").exc]
              ELSE [xf EXCEPT !.runs[r].result = xf.files[f]]
     IN xf' = [x EXCEPT !.runs[r].pc = "exit", !.files = Cleanup(@, f)]
  /\ UNCHANGED << config, docs, pc, args, sp, ret, sources, notes, nextId >>

\* the ceiling expires for call r: the call raises and the finally clause
\* runs, the process is left running
PairTimesOut(r) ==
  /\ xf.pc = "pair"
  /\ xf.runs[r].pc = "communicate"
  /\ xf.runs[r].proc = "running"
  /\ xf' = [xf EXCEPT !.runs[r].pc = "exit", !.runs[r].exc = ExecutionTimeout,
                      !.files = Cleanup(@, xf.runs[r].tmp_file)]
  /\ UNCHANGED << config, docs, pc, args, sp, ret, sources, notes, nextId >>

NextPair ==
  \/ LoopTimePasses
  \/ \E r \in 1..2, found \in BOOLEAN : PairEnters(r, found)
  \/ \E r \in 1..2 : PairProcWrites(r)
  \/ \E r \in 1..2, code \in { 0, 1 } : PairProcExits(r, code)
  \/ \E r \in 1..2 : PairReturns(r)
  \/ \E r \in 1..2 : PairTimesOut(r)

SpecPair == InitPair /\ [][NextPair]_vars

\* ------------------------------------------------------------- Agent.chat
\* a source list with one entry for every retrieved chunk
ChatSourcesPerChunk(d, hits) ==
  [ i \in 1..Len(hits) |-> d[hits[i]].source ]

\* the source summaries of Agent.chat: the source names of the retrieved
\* chunks, an empty or already seen name skipped
RECURSIVE ChatSources(_, _)
ChatSources(d, hits) ==
  IF hits = << >> THEN << >>
  ELSE LET front == ChatSources(d, SubSeq(hits, 1, Len(hits) - 1))
           source_name == d[hits[Len(hits)]].source
       IN IF source_name # "" /\ \A k \in 1..Len(front) : front[k] # source_name
          THEN Append(front, source_name)
          ELSE front

\* Agent.chat up to its await: the search with max_sources as K, the context
\* and history blocks, and the one call of the primary provider
ChatStart(message) ==
  /\ pc = "idle"
  /\ pc' = "chat"
  /\ ret' = [ op |-> "chat", query |-> message, num_docs |-> config.max_sources,
              hits |-> similarity_search(docs, message, config.max_sources),
              calls |-> << "llm" >>, status |-> 0, message |-> << >>,
              sources |-> << >>, docs_retrieved |-> 0 ]
  /\ UNCHANGED << config, docs, args, sp, sources, notes, nextId, xf >>

\* the provider answers: the response is assembled and returned
ChatAnswered(text) ==
  /\ pc = "chat"
  /\ pc' = "idle"
  /\ ret' = [ret EXCEPT !.status = 200, !.message = text,
                        !.sources = ChatSources(docs, ret.hits),
                        !.docs_retrieved = Len(ret.hits)]
  /\ UNCHANGED << config, docs, args, sp, sources, notes, nextId, xf >>

\* the provider call fails: _generate_text re-raises and the handler answers
\* 500
ChatFailed ==
  /\ pc = "chat"
  /\ pc' = "idle"
  /\ ret' = [ret EXCEPT !.status = 500]
  /\ UNCHANGED << config, docs, args, sp, sources, notes, nextId, xf >>

\* chat requests between additions of sources
NextChat ==
  \/ \E n \in SourceNames, t \in ServiceTexts : AddSource(n, t)
  \/ \E m \in ChatMessages : ChatStart(m)
  \/ \E t \in Replies : ChatAnswered(t)
  \/ ChatFailed

SpecChat == InitTransform /\ [][NextChat]_vars

\* ------------------------------------------------------- the slide parser
Slide(style, content) == [ style |-> style, content |-> content ]

StyleOpen ==
  << "<", "S", "T", "Y", "L", "E", "_", "I", "N", "S", "T", "R", "U", "C", "T", "I",
     "O", "N", "S", ">" >>
StyleClose ==
  << "<", "/", "S", "T", "Y", "L", "E", "_", "I", "N", "S", "T", "R", "U", "C", "T",
     "I", "O", "N", "S", ">" >>

\* the required-field keywords, as the lower-cased slide text is searched
Keywords ==
  { << "u53d9", "u4e8b", "u76ee", "u6807" >>,
    << "n", "a", "r", "r", "a", "t", "i", "v", "e", " ", "g", "o", "a", "l" >>,
    << "u5173", "u952e", "u5185", "u5bb9" >> }

\* the inline markers "// 叙事目标" and "// NARRATIVE GOAL"
MarkerZh == << "/", "/", " ", "u53d9", "u4e8b", "u76ee", "u6807" >>
MarkerEn ==
  << "/", "/", " ", "N", "A", "R", "R", "A", "T", "I", "V", "E", " ", "G", "O", "A", "L" >>

Digits == { "0", "1", "2", "3", "4", "5", "6", "7", "8", "9" }

\* w occurs in s at position p
HasAt(s, p, w) ==
  /\ p >= 1
  /\ p + Len(w) - 1 <= Len(s)
  /\ \A k \in 1..Len(w) : s[p + k - 1] = w[k]

\* the first position from p on whose character is not in S
RECURSIVE SkipWhile(_, _, _)
SkipWhile(s, p, S) ==
  IF p <= Len(s) /\ s[p] \in S THEN SkipWhile(s, p + 1, S) ELSE p

\* the end of the line of position p: where ".*$" stops
RECURSIVE LineEnd(_, _)
LineEnd(s, p) ==
  IF p <= Len(s) /\ s[p] # "\n" THEN LineEnd(s, p + 1) ELSE p

\* "^" under re.MULTILINE
AtLineStart(s, p) == p = 1 \/ s[p - 1] = "\n"

\* (?:Slide|幻灯片|第\d+张幻灯片|##) at p: the position behind it, or 0
SlideWordEnd(s, p) ==
  IF HasAt(s, p, << "S", "l", "i", "d", "e" >>) THEN p + 5
  ELSE IF HasAt(s, p, << "u5e7b", "u706f", "u7247" >>) THEN p + 3
  ELSE IF HasAt(s, p, << "u7b2c" >>)
  THEN LET d == SkipWhile(s, p + 1, Digits)
       IN IF d > p + 1 /\ HasAt(s, d, << "u5f20", "u5e7b", "u706f", "u7247" >>)
          THEN d + 4 ELSE 0
  ELSE IF HasAt(s, p, << "#", "#" >>) THEN p + 2
  ELSE 0

\* (?:\s*#{1,6}\s*)? at p: the positions where it may end
PrefixEnds(s, p) ==
  { p } \cup
  { c \in p..(Len(s) + 1) :
      \E a \in p..SkipWhile(s, p, WhiteSpace), k \in 1..6 :
        /\ \A j \in a..(a + k - 1) : j <= Len(s) /\ s[j] = "#"
        /\ a + k <= c
        /\ c <= SkipWhile(s, a + k, WhiteSpace) }

\* the slide pattern at p: the ends of its matches; behind the word come
\* \s*, \d+, [:\s]* and the rest of the line where that run stops
HeadingEnds(s, p) ==
  { LineEnd(s, SkipWhile(s, SkipWhile(s, d, Digits), WhiteSpace \cup { ":" })) :
      d \in { SkipWhile(s, SlideWordEnd(s, j), WhiteSpace) :
                j \in { q \in PrefixEnds(s, p) : SlideWordEnd(s, q) # 0 } }
             \cap { q \in 1..Len(s) : s[q] \in Digits } }

\* pattern.match at p: the end of the match, or 0
MatchEnd(s, p) ==
  IF AtLineStart(s, p) /\ HeadingEnds(s, p) # {}
  THEN CHOOSE e \in HeadingEnds(s, p) : \A f \in HeadingEnds(s, p) : e <= f
  ELSE 0

\* pattern.finditer(content): the matches from p on, left to right and not
\* overlapping, each with its start and the position behind its end
RECURSIVE finditer(_, _)
finditer(s, p) ==
  IF p > Len(s) THEN << >>
  ELSE LET e == MatchEnd(s, p)
       IN IF e = 0 THEN finditer(s, p + 1)
          ELSE << [ start |-> p, end |-> e ] >> \o finditer(s, e)

\* content.find(w): the index of the first occurrence from 0, or -1
Find(s, w) ==
  IF \E p \in 1..(Len(s) + 1) : HasAt(s, p, w)
  THEN (CHOOSE p \in 1..(Len(s) + 1) :
          HasAt(s, p, w) /\ \A q \in 1..(p - 1) : ~HasAt(s, q, w)) - 1
  ELSE -1

\* step 1: the text between the style markers
StyleOf(content) ==
  LET style_start == Find(content, StyleOpen)
      style_end == Find(content, StyleClose)
  IN IF style_start # -1 /\ style_end > style_start
     THEN PySlice(content, style_start + 20, style_end)
     ELSE << >>

\* the required-field check of a candidate slide
HasKeyword(slide_content) ==
  \E keyword \in Keywords : Contains(LowerStr(slide_content), keyword)

\* content[start:end] of match i: to the start of the next match or the end
SpanOf(content, matches, i) ==
  SubSeq(content, matches[i].start,
         IF i + 1 > Len(matches) THEN Len(content) ELSE matches[i + 1].start - 1)

\* a step 2 that keeps every candidate
AcceptedUnchecked(content, matches, style) ==
  [ i \in 1..Len(matches) |-> Slide(style, SpanOf(content, matches, i)) ]

\* step 2: the candidates that hold a keyword, in order
AcceptedSlides(content, matches, style) ==
  SelectSeq([ i \in 1..Len(matches) |-> Slide(style, SpanOf(content, matches, i)) ],
            LAMBDA sl : HasKeyword(sl.content))

\* content.split(marker) for a non-empty marker
RECURSIVE StrSplit(_, _)
StrSplit(s, w) ==
  LET k == Find(s, w)
  IN IF k = -1 THEN << s >>
     ELSE << PySlice(s, 0, k) >> \o StrSplit(SubSeq(s, k + Len(w) + 1, Len(s)), w)

\* step 3: the segments behind each inline marker, the marker put back
MarkerSlides(content, style) ==
  LET marker == IF Contains(content, MarkerZh) THEN MarkerZh ELSE MarkerEn
      parts == StrSplit(content, marker)
  IN IF Contains(content, marker)
     THEN [ i \in 1..(Len(parts) - 1) |-> Slide(style, marker \o parts[i + 1]) ]
     ELSE << >>

\* a parser without the final fallback
ParseNoFallback(content) ==
  LET style == StyleOf(content)
      slides == AcceptedSlides(content, finditer(content, 1), style)
  IN IF slides # << >> THEN slides ELSE MarkerSlides(content, style)

\* Agent.parse_ppt_slides
parse_ppt_slides(content) ==
  LET style == StyleOf(content)
      slides == AcceptedSlides(content, finditer(content, 1), style)
  IN IF slides # << >> THEN slides
     ELSE IF MarkerSlides(content, style) # << >> THEN MarkerSlides(content, style)
     ELSE << Slide(style, content) >>

\* the generated texts handed to the parser: an optional preamble and up to
\* MaxPieces pieces of headings, keyword lines, markers and filler
ParsePieces ==
  { << "S", "l", "i", "d", "e", " ", "1" >>,
    << "#", " ", "u5e7b", "u706f", "u7247", "2", ":" >>,
    << "\n" >>,
    << " ", "u53d9", "u4e8b", "u76ee", "u6807", "\n" >>,
    MarkerEn,
    << "x", "\n" >> }

ParsePreambles ==
  { << >>,
    StyleOpen \o << "s" >> \o StyleClose \o << "\n" >>,
    StyleClose \o StyleOpen \o << "\n" >>,
    MarkerZh \o << "x" >> }

ParseExtras ==
  { << "u7b2c", "1", "u5f20", "u5e7b", "u706f", "u7247", " ", "2", " ",
       "u5173", "u952e", "u5185", "u5bb9" >>,
    << "#", "#", "#", " ", "1", ":", " ", "n", "a", "r", "r", "a", "t", "i", "v", "e",
       " ", "g", "o", "a", "l" >>,
    << "s", "l", "i", "d", "e", " ", "1", " ", "u53d9", "u4e8b", "u76ee", "u6807" >>,
    << "\n", " ", "#", " ", "S", "l", "i", "d", "e", " ", "1", "\n", "\n",
       "u53d9", "u4e8b", "u76ee", "u6807", "\n", "#", "#", " ", "2", "\n" >>,
    StyleOpen \o << "s" >> \o StyleClose \o
    << "\n",
       "S", "l", "i", "d", "e", " ", "1", ":", " ", "N", "a", "r", "r", "a", "t",
       "i", "v", "e", " ", "G", "o", "a", "l", "\n", "#", "#", " ", "2", "\n", "x",
       "\n", "u7b2c", "3", "u5f20", "u5e7b", "u706f", "u7247", " ", "4", "\n",
       "u5173", "u952e", "u5185", "u5bb9" >> }

ParseInputs ==
  { pre \o Join(body, << >>) : pre \in ParsePreambles, body \in SeqsUpTo(ParsePieces, MaxPieces) }
    \cup ParseExtras

InitParse ==
  /\ config \in { c \in ServiceConfigs : c.gemini /\ c.chunk_size > c.chunk_overlap }
  /\ docs = << >>
  /\ pc = "idle"
  /\ args \in { [ source_name |-> "", content |-> t ] : t \in ParseInputs }
  /\ sp = NoSplit
  /\ ret = NoCall
  /\ NoService

\* slides = agent.parse_ppt_slides(response.content)
ParsePptSlides ==
  /\ pc = "idle"
  /\ ret = NoCall
  /\ ret' = [ op |-> "parse_ppt_slides", slides |-> parse_ppt_slides(args.content) ]
  /\ UNCHANGED << config, docs, pc, args, sp, sources, notes, nextId, xf >>

NextParse == ParsePptSlides

SpecParse == InitParse /\ [][NextParse]_vars

\* ----------------------------------------------------- chunker properties
\* the split has returned and its chunks are stored
SplitReturned == pc = "done"

\* chunk_size > 0 and 0 <= overlap < chunk_size, as the loop uses them
ValidSizes == sp.chunk_size > 0 /\ 0 <= sp.chunk_overlap /\ sp.chunk_overlap < sp.chunk_size

\* the number of input units: characters in CJK mode, words in word mode
N == Len(sp.units)

\* ceil(a / b) for b > 0
CeilDiv(a, b) == -((-a) \div b)

\* the units of a stored chunk, read back from its text
UnitsOf(chunk) == IF sp.cjk THEN Runes(chunk) ELSE Words(chunk)

\* the units of the chunks from chunk k on, without the first chunk_overlap
\* units of every chunk but the first
RECURSIVE OverlapsRemoved(_)
OverlapsRemoved(k) ==
  IF k > Len(sp.chunks) THEN << >>
  ELSE LET u == UnitsOf(sp.chunks[k])
       IN (IF k = 1 THEN u ELSE SubSeq(u, Min(sp.chunk_overlap, Len(u)) + 1, Len(u)))
            \o OverlapsRemoved(k + 1)

\* C1: every iteration of the split loop that does not leave the loop moves
\* the window start forward, so the loop ends after finitely many windows
C1_WindowAdvances ==
  [][(pc = "loop" /\ pc' = "loop" /\ ~sp.done /\ ~sp'.done) => sp'.i > sp.i]_vars

\* C2 as stated: for N >= 1 units and valid sizes the number of chunks is
\* ceil((N - overlap) / (chunk_size - overlap)), also when N <= overlap
C2_CountAsStated ==
  (SplitReturned /\ ValidSizes /\ N >= 1)
    => Len(sp.chunks) = CeilDiv(N - sp.chunk_overlap, sp.chunk_size - sp.chunk_overlap)

\* C2 amended: for N >= 1 units and valid sizes the number of chunks is
\* ceil((N - overlap) / (chunk_size - overlap)) when N > overlap and 1 when
\* N <= overlap
C2_Count ==
  (SplitReturned /\ ValidSizes /\ N >= 1)
    => Len(sp.chunks) =
         Max(1, CeilDiv(N - sp.chunk_overlap, sp.chunk_size - sp.chunk_overlap))

C2_Witness ==
  /\ SplitReturned /\ ValidSizes /\ N >= 1 /\ N <= sp.chunk_overlap
  /\ Len(sp.chunks) = 1

\* C3: for non-empty text and valid sizes, the chunks with the first overlap
\* units of every chunk but the first removed give back the units of the
\* text, in order; in CJK mode their concatenation is the text itself
C3_Reconstructs ==
  (SplitReturned /\ ValidSizes /\ Len(args.content) > 0)
    => /\ OverlapsRemoved(1) = (IF sp.cjk THEN Runes(args.content) ELSE Words(args.content))
       /\ sp.cjk => Join(OverlapsRemoved(1), << >>) = args.content

C3_Witness ==
  /\ SplitReturned /\ ValidSizes /\ sp.chunk_overlap >= 1
  /\ Len(sp.chunks) >= 3
  /\ OverlapsRemoved(1) = sp.units

ScenarioA == args.content = ScenarioAText /\ config = ScenarioAConfig

\* C4 as stated: scenario A stores and returns 4 chunks with the word windows
\* [0,1000), [800,1800), [1600,2600) clamped to the end, and [2400,2500)
C4_ScenarioAAsStated ==
  (SplitReturned /\ ScenarioA)
    => /\ ret.count = 4 /\ Len(docs) = 4
       /\ sp.windows = << <<0, 1000>>, <<800, 1800>>, <<1600, 2500>>, <<2400, 2500>> >>

\* C4 amended: scenario A stores and returns 3 chunks with the word windows
\* [0,1000), [800,1800) and [1600,2600) clamped to the end [1600,2500), where
\* the loop stops; chunk k of the source holds the words of window k
C4_ScenarioA ==
  (SplitReturned /\ ScenarioA)
    => /\ ret.count = 3 /\ Len(docs) = 3
       /\ sp.windows = << <<0, 1000>>, <<800, 1800>>, <<1600, 2500>> >>
       /\ \A k \in 1..3 :
            /\ docs[k].chunk = k - 1
            /\ docs[k].source = args.source_name
            /\ Words(docs[k].page_content)
                 = SubSeq(Words(ScenarioAText), sp.windows[k][1] + 1, sp.windows[k][2])

C4_Witness == SplitReturned /\ ScenarioA /\ Len(docs) = 3 /\ Len(Words(args.content)) = 2500

\* ------------------------------------------------------ ranker properties
\* the last call was a search; the collection is the one it searched
Searched == ret.op = "similarity_search"

\* the limit the search used
Limit == IF ret.num_docs <= 0 THEN 5 ELSE ret.num_docs

\* the score of the chunk at position p for the searched query
ScoreAt(p) == Score(docs[p].page_content, ret.query)

NoneScored == \A p \in 1..Len(docs) : ScoreAt(p) = 0

LiteralMatches == { p \in 1..Len(docs) : Contains(docs[p].page_content, ret.query) }

\* the chunks whose lower-cased text holds the lower-cased query
FoldedMatches ==
  { p \in 1..Len(docs) : Contains(LowerStr(docs[p].page_content), LowerStr(ret.query)) }

C7_RankedOrder ==
  Searched =>
    /\ \A j, k \in 1..Len(ret.hits) :
         j < k => \/ ScoreAt(ret.hits[j]) > ScoreAt(ret.hits[k])
                  \/ /\ ScoreAt(ret.hits[j]) = ScoreAt(ret.hits[k])
                     /\ ret.hits[j] < ret.hits[k]
    /\ ~NoneScored =>
         /\ \A k \in 1..Len(ret.hits) : ScoreAt(ret.hits[k]) > 0
         /\ Len(ret.hits) = Min(Limit, Cardinality({ p \in 1..Len(docs) : ScoreAt(p) > 0 }))
         /\ \A p \in 1..Len(docs), k \in 1..Len(ret.hits) :
              (\A j \in 1..Len(ret.hits) : ret.hits[j] # p)
                => \/ ScoreAt(ret.hits[k]) > ScoreAt(p)
                   \/ ScoreAt(ret.hits[k]) = ScoreAt(p) /\ ret.hits[k] < p
    /\ ret.hits = similarity_search(docs, ret.query, ret.num_docs)

C7_Witness ==
  /\ Searched /\ Len(ret.hits) >= 2
  /\ \E j, k \in 1..Len(ret.hits) :
       j < k /\ ScoreAt(ret.hits[j]) = ScoreAt(ret.hits[k]) /\ ret.hits[j] < ret.hits[k]
  /\ \E p \in 1..Len(docs) : ScoreAt(p) = 0
  /\ \E p, q \in 1..Len(docs) : p < q /\ 0 < ScoreAt(p) /\ ScoreAt(p) < ScoreAt(q)
  /\ Len(ret.hits) < Limit

\* ----------------------------------------------------- service properties
\* C8: once the service has deleted a source, the collection holds no chunk
\* whose source_name is the name of that source
C8_DeletedSourceHasNoChunks ==
  ret.op = "delete_source" => \A p \in 1..Len(docs) : docs[p].source # ret.name

\* C9: no two stored chunks share the identity (source_name, index)
C9_UniqueIdentity ==
  \A p, q \in 1..Len(docs) :
    p < q => ~(docs[p].source = docs[q].source /\ docs[p].chunk = docs[q].chunk)

\* C10: a transform request of a type without a prompt template ends in an
\* error response with no call of a text provider, of the image provider or
\* of the external tool, and without a note
C10_UnknownTypeRejected ==
  (xf.pc # "idle" /\ xf.type \notin KnownTypes)
    => /\ xf.pc = "done"
       /\ xf.status = (IF xf.source_ids = << >> THEN 400 ELSE 500)
       /\ xf.calls = << >>
       /\ ~xf.note
       /\ \A k \in 1..Len(notes) : notes[k].type \in KnownTypes

C10_Witness ==
  /\ xf.pc = "done" /\ xf.type = "poem" /\ xf.status = 500
  /\ xf.source_ids # << >> /\ config.gemini
  /\ ret = [ op |-> "transform", status |-> 500 ]

\* ---------------------------------------------------- tool run properties
\* the call of _call_deepinsight of the request in flight has ended
RunEnded == xf.pc # "idle" /\ xf.run.pc \in { "returned", "raised" }

\* C11: in an insight transform the fallback with the five-section prompt is
\* taken exactly when the executable of the tool is missing; a non-zero
\* exit, a timeout and a failure to read the output file take the fallback
\* with the simple prompt
C11_MissingToolFallbackOnly ==
  (RunEnded /\ xf.fallback \in { "missing", "generic" })
    => (xf.fallback = "missing" <=> ~xf.run.found)

C13_NoTempFileAtExit ==
  [][(xf.pc = "run" /\ xf.run.pc = "exit" /\ xf'.run.pc \in { "returned", "raised" })
       => xf'.run.tmp_file = "absent"]_vars

\* C14: in every state after a timed-out run has raised, the temporary output
\* file does not exist and the process of that run no longer runs, so it
\* cannot create or write the file
C14_TimeoutDiscardsOutput ==
  (RunEnded /\ xf.run.timed_out)
    => (xf.run.tmp_file = "absent" /\ xf.run.proc # "running")

\* C15: a run that raises reports tool-not-found for a missing executable,
\* the execution failure with the standard-error text for a non-zero exit,
\* and for an expired ceiling an error whose kind is neither of those two
C15_DistinctErrorKinds ==
  (RunEnded /\ xf.run.pc = "raised")
    => /\ ~xf.run.found => xf.run.exc = ExecutableNotFound
       /\ (xf.run.found /\ ~xf.run.timed_out /\ xf.run.returncode # 0)
            => /\ xf.run.exc = ExecutionFailure(xf.run.stderr)
               /\ xf.run.exc.class # ExecutableNotFound.class
       /\ xf.run.timed_out
            => /\ xf.run.exc.class # ExecutionFailure(xf.run.stderr).class
               /\ xf.run.exc.class # ExecutableNotFound.class

\* ------------------------------------------------- slide parser properties
Parsed == ret.op = "parse_ppt_slides"

\* the heading matches of the parsed content
HeadingMatches == finditer(args.content, 1)

\* the span of match k of m: up to the next match or the end of the content
SpanIn(m, k) ==
  SubSeq(args.content, m[k].start,
         IF k = Len(m) THEN Len(args.content) ELSE m[k + 1].start - 1)

\* the matches of m whose span holds a required-field keyword
AcceptedIn(m) == { k \in 1..Len(m) : HasKeyword(SpanIn(m, k)) }

AcceptedMatches == AcceptedIn(HeadingMatches)

HasInlineMarker == Contains(args.content, MarkerZh) \/ Contains(args.content, MarkerEn)

\* the i-th match of acc in document order
Nth(acc, i) == CHOOSE k \in acc : Cardinality({ j \in acc : j <= k }) = i

\* C16: the parser returns at least one slide for every input, the empty
\* string included; with no accepted heading and no inline marker it returns
\* exactly one slide whose content is the whole input
C16_NeverEmpty ==
  Parsed =>
    /\ Len(ret.slides) >= 1
    /\ (AcceptedMatches = {} /\ ~HasInlineMarker)
         => (Len(ret.slides) = 1 /\ ret.slides[1].content = args.content)

C16_Witness ==
  /\ Parsed /\ Len(HeadingMatches) >= 1 /\ AcceptedMatches = {} /\ ~HasInlineMarker
  /\ Len(args.content) > 0
  /\ ret.slides = << Slide(StyleOf(args.content), args.content) >>

\* C17: when a heading is accepted, the slides are exactly the heading
\* matches whose span holds a required-field keyword, in document order,
\* each with the span from its heading's start to the start of the next
\* heading match (or the end of the content) as content and with the global
\* style string; two accepted headings give exactly 2 slides
C17_AcceptedHeadings ==
  Parsed =>
    \A m \in { HeadingMatches } : \A acc \in { AcceptedIn(m) } :
      acc # {} =>
        /\ Len(ret.slides) = Cardinality(acc)
        /\ \A i \in 1..Len(ret.slides) :
             /\ ret.slides[i].content = SpanIn(m, Nth(acc, i))
             /\ ret.slides[i].style = StyleOf(args.content)
        /\ Cardinality(acc) = 2 => Len(ret.slides) = 2

C17_Witness ==
  /\ Parsed /\ Len(HeadingMatches) = 3 /\ Cardinality(AcceptedMatches) = 2
  /\ Len(ret.slides) = 2
  /\ ret.slides[1].style = << "s" >>
  /\ ret.slides[2].content
       = SubSeq(args.content, HeadingMatches[3].start, Len(args.content))

\* ------------------------------------------------- slide image properties
\* a ppt transform whose generated text has been parsed into slides
PptParsed ==
  /\ xf.pc \in { "slide_image", "save", "done" }
  /\ xf.type = "ppt"
  /\ config.gemini
  /\ xf.nslides >= 1

\* the image-generation calls of the request so far
ImageCalls == Len(SelectSeq(xf.calls, LAMBDA c : c = "gemini_image"))

\* C18: the image generation of a ppt transform is skipped, with no image
\* call and an error in the note metadata, exactly when the number of parsed
\* slides exceeds the maximum of 20 that the error states; with at most 20
\* slides an image call is made for every slide
C18_SlideCapAsStated ==
  (PptParsed /\ xf.pc \in { "save", "done" })
    => /\ (xf.image = "error" /\ ImageCalls = 0) <=> (xf.nslides > StatedMaxSlides)
       /\ xf.nslides <= StatedMaxSlides => ImageCalls = xf.nslides

\* C19: slide images are generated one at a time in slide order; a failed
\* slide stops neither the later slides nor the transform, whose note is
\* created, and the result holds one item per slide that tells whether the
\* slide failed
C19_PartialBatchFailure ==
  (PptParsed /\ xf.nslides <= MaxSlideImages)
    => /\ xf.pc = "slide_image" => ImageCalls = xf.k
       /\ xf.pc \in { "save", "done" } => ImageCalls = xf.nslides
       /\ xf.pc = "done" => (xf.status = 200 /\ xf.note)
       /\ xf.pc \in { "save", "done" }
            => /\ Len(xf.slide_urls) = xf.nslides
               /\ \A k \in 1..xf.nslides :
                    (xf.slide_urls[k] # "url") <=> (k \in xf.slide_failures)

\* --------------------------------------------------------- chat properties
\* the position in the retrieved chunks of the first chunk of source name n
FirstHit(n) ==
  CHOOSE i \in 1..Len(ret.hits) :
    /\ docs[ret.hits[i]].source = n
    /\ \A j \in 1..(i - 1) : docs[ret.hits[j]].source # n

\* C20: a chat request calls the primary provider exactly once, also when no
\* chunk was retrieved; the answer it then returns lists each source name of
\* the retrieved chunks once, in the order of first occurrence, and records
\* the number of retrieved chunks
C20_ChatAnswer ==
  ret.op = "chat" =>
    /\ ret.calls = << "llm" >>
    /\ (pc = "chat") <=> (ret.status = 0)
    /\ ret.status = 200 =>
         /\ ret.docs_retrieved = Len(ret.hits)
         /\ { ret.sources[k] : k \in 1..Len(ret.sources) }
              = { docs[ret.hits[i]].source : i \in 1..Len(ret.hits) }
         /\ \A j, k \in 1..Len(ret.sources) :
              j < k => /\ ret.sources[j] # ret.sources[k]
                       /\ FirstHit(ret.sources[j]) < FirstHit(ret.sources[k])
         /\ ret.hits = << >> => ret.sources = << >>

C20_Witness ==
  /\ ret.op = "chat" /\ ret.status = 200
  /\ Len(ret.hits) >= 3 /\ Len(ret.sources) = 2
  /\ docs[ret.hits[1]].source = docs[ret.hits[2]].source
  /\ ret.docs_retrieved = Len(ret.hits)

\* ------------------------------------------- provider failure properties
\* C21: a failed call of a text provider ends the request with the failure
\* reported as status 500, whatever the type and whichever call failed (the
\* summary and the fallback regeneration of an insight included); the failing
\* step creates nothing, the failed request has no note, and the notes, the
\* sources and the chunk collection change only once the generation has
\* returned
C21_GenerationFailureReported ==
  [][ /\ (xf'.pc # "idle" /\ xf'.failed # "none")
           => /\ xf'.pc = "done" /\ xf'.status = 500 /\ ~xf'.note
              /\ ret' = [ op |-> "transform", status |-> 500 ]
              /\ UNCHANGED << notes, sources, docs >>
      /\ xf.pc \notin { "save", "insight_source" }
           => UNCHANGED << notes, sources, docs >>
    ]_vars

C21_Witness ==
  /\ xf.pc = "done" /\ xf.type = "insight" /\ xf.fallback = "missing"
  /\ xf.failed = "llm" /\ xf.status = 500 /\ ~xf.note
  /\ Len(xf.replies) = 1
  /\ notes = << >> /\ docs # << >>
  /\ \A k \in 1..Len(sources) : sources[k].name # InsightName

\* ------------------------------------------------ mode selection properties
\* the characters of t in the CJK Unified Ideographs block, U+4E00 to U+9FFF
Ideographs(t) ==
  { k \in 1..Len(t) : Ord(t[k]) \in 19968..40959 }

MoreThan30Percent(t) == 10 * Cardinality(Ideographs(t)) > 3 * Len(t)

\* C22: a text is split into windows of characters exactly when more than
\* 30% of its characters are CJK ideographs and into windows of whitespace-
\* separated words joined by one space otherwise, so that a text of exactly
\* 30% and the empty text are split by words; the empty text gives no chunk
\* and a count of 0
C22_ModeSelection ==
  pc \in { "loop", "done" } =>
    LET t == args.content
    IN /\ sp.cjk <=> MoreThan30Percent(t)
       /\ \A k \in 1..Len(sp.chunks) :
            sp.chunks[k] = IF MoreThan30Percent(t)
                           THEN PySlice(t, sp.windows[k][1], sp.windows[k][2])
                           ELSE Join(PySlice(Words(t), sp.windows[k][1], sp.windows[k][2]),
                                     << " " >>)
       /\ t = << >> => /\ ~sp.cjk /\ sp.chunks = << >> /\ sp.i = 0
                       /\ pc = "done" => (ret.count = 0 /\ docs = << >>)

C22_Witness ==
  /\ pc = "done"
  /\ Len(args.content) = 10 /\ Cardinality(Ideographs(args.content)) = 3
  /\ ~sp.cjk
  /\ sp.chunks # << >>
  /\ \A k \in 1..Len(sp.chunks) : " " \in { sp.chunks[k][j] : j \in 1..Len(sp.chunks[k]) }
  /\ ret.count = Len(sp.chunks)

\* ------------------------------------------------ concurrent run properties
\* call r has chosen its file and has not left _call_deepinsight
InFlight(r) == xf.runs[r].pc = "communicate"

\* C23: two calls of the tool that are in flight together have different
\* temporary files; a call that returns a report returns the report on its
\* own summary, and a call whose process wrote its report does not find the
\* file missing
C23_DistinctTempPaths ==
  /\ (InFlight(1) /\ InFlight(2)) => xf.runs[1].tmp_file # xf.runs[2].tmp_file
  /\ \A r \in 1..2 :
       /\ xf.runs[r].result # "none" => xf.runs[r].result = xf.runs[r].summary
       /\ (xf.runs[r].wrote /\ xf.runs[r].pc = "exit" /\ xf.runs[r].returncode = 0)
            => xf.runs[r].exc.class # "FileNotFoundError"

\* ------------------------------------------------- collection frame properties
\* the chunks of d that do not belong to source name n, in storage order
Others(d, n) == SelectSeq(d, LAMBDA doc : doc.source # n)

\* the chunks the chunker makes of text t under the configuration
ChunksOf(t) == SplitLoop(SplitEnter(t, config), MaxChunks + 1).chunks

\* C24: a returning ingest_text(n, t) leaves the stored chunks in place,
\* appends behind them one chunk per chunk of the chunker, in chunker order
\* and numbered from 0, and returns their number; similarity_search leaves
\* the collection as it is; delete(n) leaves the chunks of every other source
\* as they are and in the same order
C24_FrameEffects ==
  [][ /\ \A t \in SampleTexts :
           (ret'.op = "ingest_text" /\ pc' = "idle" /\ IngestText(ret'.source_name, t))
             => \A chunks \in { ChunksOf(t) } :
                  /\ Len(docs') = Len(docs) + Len(chunks)
                  /\ SubSeq(docs', 1, Len(docs)) = docs
                  /\ \A k \in 1..Len(chunks) :
                       docs'[Len(docs) + k] = [ page_content |-> chunks[k],
                                               source |-> ret'.source_name,
                                               chunk |-> k - 1 ]
                  /\ ret'.count = Len(chunks)
      /\ (docs' # docs /\ ret'.op = "similarity_search")
           => ~SimilaritySearch(ret'.query, ret'.num_docs)
      /\ (ret'.op = "delete" /\ Delete(ret'.source_name))
           => /\ Others(docs', ret'.source_name) = Others(docs, ret'.source_name)
              /\ Len(docs') <= Len(docs)
    ]_vars

C24_Witness ==
  /\ ret.op = "ingest_text" /\ ret.count >= 2
  /\ Len(docs) > ret.count
  /\ \A k \in 1..ret.count :
       /\ docs[Len(docs) - ret.count + k].source = ret.source_name
       /\ docs[Len(docs) - ret.count + k].chunk = k - 1
  /\ docs[1].source # ret.source_name
  /\ docs[1].chunk = 0

====
